---- MODULE Spec2Model ----
\* The JLPT flashcard study session of src/pages/jlpt-flashcards.tsx as a
\* state machine: one action per event the component reacts to (a handler, a
\* timer callback, mount, unmount), each followed by the renders and effects
\* it triggers, run in declaration order until the component state is stable.
EXTENDS Integers, Sequences, FiniteSets, TLC

\* ---------------------------------------------------------------- bounds
\* number of well-formed N5 records at the head of the source array
DeckCap == 2
\* getStaticProps is applied to source arrays of at most IngestLen records
IngestLen == 3
\* clampToRange is applied to values and totals in -ClampSpan..ClampSpan
ClampSpan == 4

\* ------------------------------------------------------ program constants
levels == <<"N5", "N4", "N3", "N2", "N1">>
Levels == {levels[i] : i \in 1..Len(levels)}
isJLPTLevel(value) == \E i \in 1..Len(levels) : levels[i] = value

AUTO_JA_DURATION == 1800
AUTO_KO_DURATION == 1800
minSwipeDistance == 50

\* ------------------------------------------------------------- card data
\* A text is a sequence; the empty sequence is the empty/missing string,
\* which JavaScript treats as falsy.  ref is the identity of the card object.
NoText == <<>>
NoCard == [hiragana |-> NoText, korean |-> NoText, level |-> "", ref |-> 0]

RawEntry(h, k, l) == [hiragana |-> h, korean |-> k, level |-> l]

\* the source array public/n1-n5_words.json, bounded: DeckCap N5 words, one N4
\* word without korean, one N3 word, and three records ingestion has to judge
\* (no level, a level outside the enumeration, no hiragana)
RawTail ==
  << RawEntry(<<"ja", 12>>, NoText, "N4"),
     RawEntry(<<"ja", 13>>, <<"ko", 13>>, "N3"),
     RawEntry(<<"ja", 14>>, <<"ko", 14>>, ""),
     RawEntry(<<"ja", 15>>, <<"ko", 15>>, "N6"),
     RawEntry(NoText, <<"ko", 16>>, "N5") >>
RawData == [i \in 1..DeckCap |-> RawEntry(<<"ja", i>>, <<"ko", i>>, "N5")] \o RawTail

buildEmptyVocab == [l \in Levels |-> <<>>]

\* a variant that files a record without a level under N5
RECURSIVE ingest_DefaultLevel(_, _, _)
ingest_DefaultLevel(rawData, i, vocab) ==
  IF i > Len(rawData) THEN vocab
  ELSE LET entry == rawData[i]
           level == IF entry.level = "" THEN "N5" ELSE entry.level IN
       IF entry.hiragana = NoText THEN ingest_DefaultLevel(rawData, i + 1, vocab)
       ELSE IF ~isJLPTLevel(level) THEN ingest_DefaultLevel(rawData, i + 1, vocab)
       ELSE ingest_DefaultLevel(rawData, i + 1,
                   [vocab EXCEPT ![level] =
                      Append(@, [hiragana |-> entry.hiragana, korean |-> entry.korean,
                                 level |-> level, ref |-> i])])

\* getStaticProps: the forEach over rawData, entry by entry
RECURSIVE ingest(_, _, _)
ingest(rawData, i, vocab) ==
  IF i > Len(rawData) THEN vocab
  ELSE LET entry == rawData[i] IN
       IF entry.hiragana = NoText \/ entry.level = "" THEN ingest(rawData, i + 1, vocab)
       ELSE IF ~isJLPTLevel(entry.level) THEN ingest(rawData, i + 1, vocab)
       ELSE ingest(rawData, i + 1,
                   [vocab EXCEPT ![entry.level] =
                      Append(@, [hiragana |-> entry.hiragana, korean |-> entry.korean,
                                 level |-> entry.level, ref |-> i])])
getStaticProps(rawData) == ingest(rawData, 1, buildEmptyVocab)

\* ------------------------------------------------------ the stored record
\* The value under STORAGE_KEY: absent, text JSON.parse rejects, or the text
\* of a JSON value.  level "" is a missing or falsy level; positions maps a
\* key to a number, to a non-number ("str") or to nothing ("none").
PosKeys == Levels \cup {"N9"}
JNone == [t |-> "none", v |-> 0]
JNum(n) == [t |-> "num", v |-> n]
JStr == [t |-> "str", v |-> 0]
NoPositions == [k \in PosKeys |-> JNone]
Absent == [kind |-> "absent", level |-> "", hasPositions |-> FALSE, positions |-> NoPositions]
Garbage == [kind |-> "garbage", level |-> "", hasPositions |-> FALSE, positions |-> NoPositions]
JSONstringify(payload) ==
  [kind |-> "json", level |-> payload.level, hasPositions |-> TRUE,
   positions |-> payload.positions]
\* JSON.parse on text it accepts (it throws on Garbage; callers test first)
JSONparse(raw) ==
  [level |-> raw.level, hasPositions |-> raw.hasPositions, positions |-> raw.positions]
StoredText(level, hasPos, pos) ==
  [kind |-> "json", level |-> level, hasPositions |-> hasPos, positions |-> pos]

\* records the browser profile may hold when the page is opened
StartRecords ==
  { Absent,
    Garbage,
    StoredText("N4", TRUE, [NoPositions EXCEPT !["N4"] = JNum(1)]),
    StoredText("N5", TRUE, [NoPositions EXCEPT !["N5"] = JNum(DeckCap + 2)]),
    StoredText("N3", FALSE, NoPositions),
    StoredText("N9", TRUE, [NoPositions EXCEPT !["N5"] = JNum(-1)]),
    StoredText("", TRUE, [NoPositions EXCEPT !["N5"] = JNum(1)]),
    StoredText("N2", TRUE, [NoPositions EXCEPT !["N2"] = JNum(2)]) }

\* ----------------------------------------------------------------- state
VARIABLES
  phase,            \* "constructed" | "mounted" | "unmounted"
  initialVocabData, \* the vocabData prop: what getStaticProps made of the source array
  vocabData,        \* useState: level -> deck
  selectedLevel,    \* useState
  currentIndex,     \* useState
  isFrontSide,      \* useState
  isAutoPlaying,    \* useState
  touchStart,       \* useState: number or null (-1)
  touchEnd,         \* useState: number or null (-1)
  hasHydrated,      \* useState
  autoplayTimers,   \* useRef: ids of the timers of the running sequence
  pendingTimers,    \* the runtime's timers: set of [id, kind, due, card, total]
  storage,          \* localStorage[STORAGE_KEY]
  speechAvailable,  \* 'speechSynthesis' in window
  speechLog,        \* history: speakText requests and port calls of the last event
  lastEvent,        \* history: the event that produced this state
  lastArg,          \* history: its argument (position of the level in levels, slider value)
  prior,            \* history: level, index, face and autoplay when that event began
  origin,           \* history: index at which the running autoplay was started
  cycle,            \* history: advances of the running autoplay, modulo the deck length
  writes,           \* history: the setItem calls of the last event, each with the
                    \* level and positions it stored and the positions stored before it
  found,            \* history: the stored record as the mount found it
  saved,            \* history: <<level, index>> of the session that was unmounted, until
                    \* the next session has mounted
  deckBefore,       \* history: vocabData when the last event began, if it was a shuffle
  sourceRecords,    \* IngestSpec: the array getStaticProps reads from the words file
  ingested,         \* IngestSpec: <<>> before getStaticProps ran, <<its vocabData>> after
  clampInput,       \* ClampSpec: the arguments [value, total] of one call of clampToRange
  clamped           \* ClampSpec: <<>> before the call, <<its result>> after it

vars == << phase, initialVocabData, vocabData, selectedLevel, currentIndex, isFrontSide, isAutoPlaying,
           touchStart, touchEnd, hasHydrated, autoplayTimers, pendingTimers, storage,
           speechAvailable, speechLog, lastEvent, lastArg, prior, origin, cycle,
           writes, found, saved, deckBefore, sourceRecords, ingested, clampInput, clamped >>

Null == -1

\* the component state and its environment as one value, so that handlers
\* and effects are functions from worlds to worlds; speechLog, writes and
\* warned collect what one event says, writes and warns
World ==
  [ initialVocabData |-> initialVocabData, vocabData |-> vocabData, selectedLevel |-> selectedLevel, currentIndex |-> currentIndex,
    isFrontSide |-> isFrontSide, isAutoPlaying |-> isAutoPlaying, hasHydrated |-> hasHydrated,
    autoplayTimers |-> autoplayTimers, pendingTimers |-> pendingTimers, storage |-> storage,
    speechAvailable |-> speechAvailable,
    speechLog |-> <<>>, writes |-> <<>>, warned |-> FALSE ]

Snapshot ==
  [selectedLevel |-> selectedLevel, currentIndex |-> currentIndex,
   isFrontSide |-> isFrontSide, isAutoPlaying |-> isAutoPlaying]

\* values a render derives from the state
currentDeck(w) == w.vocabData[w.selectedLevel]
totalCards(w) == Len(currentDeck(w))
activeCard(w) ==
  IF w.currentIndex >= 0 /\ w.currentIndex < totalCards(w)
  THEN currentDeck(w)[w.currentIndex + 1] ELSE NoCard

Min(a, b) == IF a < b THEN a ELSE b
Max(a, b) == IF a > b THEN a ELSE b
Range(seq) == {seq[i] : i \in 1..Len(seq)}

\* ------------------------------------------------------------ callbacks
LogEntry(op, text, lang) == [op |-> op, text |-> text, lang |-> lang]
CancelEntry == LogEntry("cancel", NoText, "")

speakText(w, text, lang) ==
  IF text = NoText \/ ~w.speechAvailable
  THEN [w EXCEPT !.speechLog = Append(@, LogEntry("speakText", text, lang))]
  ELSE [w EXCEPT !.speechLog = @ \o << LogEntry("speakText", text, lang), CancelEntry,
                                        LogEntry("speak", text, lang) >>]

\* a variant that forgets the timers without clearing them
clearAutoplayTimers_RefOnly(w) == [w EXCEPT !.autoplayTimers = <<>>]

clearAutoplayTimers(w) ==
  [w EXCEPT !.pendingTimers = {t \in @ : t.id \notin Range(w.autoplayTimers)},
            !.autoplayTimers = <<>>]

speechCancel(w) ==
  IF w.speechAvailable THEN [w EXCEPT !.speechLog = Append(@, CancelEntry)] ELSE w

\* a variant that leaves the speech running
stopAutoplay_Silent(w) == [clearAutoplayTimers(w) EXCEPT !.isAutoPlaying = FALSE]

stopAutoplay(w) ==
  [speechCancel(clearAutoplayTimers(w)) EXCEPT !.isAutoPlaying = FALSE]

\* a variant whose upper limit is one too high
clampToRange_Loose(value, total) ==
  IF total <= 0 THEN 0 ELSE Min(Max(value, 0), total)

\* a variant without the lower limit
clampToRange_NoFloor(value, total) ==
  IF total <= 0 THEN 0 ELSE Min(value, total - 1)

clampToRange(value, total) ==
  IF total <= 0 THEN 0 ELSE Min(Max(value, 0), total - 1)

\* --------------------------------------------------------------- effects
\* Each effect takes the render r whose closure it runs in and the world w
\* as left by the effects before it; state setters act on w.

\* hydration: the stored level, if it is one of the levels
storedLevelOf(parsed) == IF isJLPTLevel(parsed.level) THEN parsed.level ELSE ""
levelToUseOf(parsed, r) ==
  IF storedLevelOf(parsed) # "" THEN storedLevelOf(parsed) ELSE r.selectedLevel
storedIndexOf(parsed, level) ==
  IF parsed.hasPositions THEN parsed.positions[level] ELSE JNone

restoreLevel(parsed, r, w) ==
  IF storedLevelOf(parsed) # "" /\ storedLevelOf(parsed) # r.selectedLevel
  THEN [w EXCEPT !.selectedLevel = storedLevelOf(parsed)] ELSE w
\* a variant that restores the stored index as it is
restoreIndex_Unclamped(storedIndex, deckSize, w) ==
  IF storedIndex.t = "num" THEN [w EXCEPT !.currentIndex = storedIndex.v] ELSE w

\* a variant that does not restore the index
restoreIndex_Forget(storedIndex, deckSize, w) == w

restoreIndex(storedIndex, deckSize, w) ==
  IF storedIndex.t = "num"
  THEN [w EXCEPT !.currentIndex = clampToRange(storedIndex.v, deckSize)] ELSE w
restore(parsed, r, w) ==
  restoreIndex(storedIndexOf(parsed, levelToUseOf(parsed, r)),
               Len(r.vocabData[levelToUseOf(parsed, r)]),
               restoreLevel(parsed, r, w))

\* useEffect(..., [vocabData]): hydration
hydrationEffect(r, w) ==
  IF w.storage.kind = "absent" THEN [w EXCEPT !.hasHydrated = TRUE]
  ELSE IF w.storage.kind = "garbage" THEN [w EXCEPT !.warned = TRUE, !.hasHydrated = TRUE]
  ELSE [restore(JSONparse(w.storage), r, w) EXCEPT !.hasHydrated = TRUE]

\* persistence: the positions found in the store, {} if there are none
positionsOf(raw) ==
  IF raw.kind = "json" /\ JSONparse(raw).hasPositions
  THEN JSONparse(raw).positions ELSE NoPositions
\* a variant that starts from an empty positions map
payloadOf_Fresh(r, positions) ==
  [level |-> r.selectedLevel,
   positions |-> [NoPositions EXCEPT ![r.selectedLevel] = JNum(r.currentIndex)]]

payloadOf(r, positions) ==
  [level |-> r.selectedLevel,
   positions |-> [positions EXCEPT ![r.selectedLevel] = JNum(r.currentIndex)]]
setItem(w, payload) ==
  [w EXCEPT !.storage = JSONstringify(payload),
            !.writes = Append(@, [level |-> payload.level, positions |-> payload.positions,
                                  before |-> positionsOf(w.storage)])]

\* useEffect(..., [selectedLevel, currentIndex, hasHydrated]): persistence
\* a variant that writes whether or not the record has been read
persistEffect_Unguarded(r, w) == setItem(w, payloadOf(r, positionsOf(w.storage)))

persistEffect(r, w) ==
  IF ~r.hasHydrated THEN w ELSE setItem(w, payloadOf(r, positionsOf(w.storage)))

\* useEffect(..., [currentIndex, totalCards, clampToRange, hasHydrated]): clamp
clampEffect(r, w) ==
  IF ~r.hasHydrated THEN w
  ELSE IF clampToRange(r.currentIndex, totalCards(r)) # r.currentIndex
  THEN [w EXCEPT !.currentIndex = clampToRange(r.currentIndex, totalCards(r))]
  ELSE w

\* setTimeout: an id no live timer has and the ref does not hold
usedIds(w) == {t.id : t \in w.pendingTimers} \cup Range(w.autoplayTimers)
freshId(w, n) == n + Cardinality(usedIds(w)) +
                 Cardinality({i \in usedIds(w) : i > Cardinality(usedIds(w))})
Timer(id, kind, due, card, total) ==
  [id |-> id, kind |-> kind, due |-> due, card |-> card, total |-> total]
setTimers(w, flipTimer, nextTimer) ==
  [w EXCEPT !.pendingTimers = @ \cup {flipTimer, nextTimer},
            !.autoplayTimers = <<flipTimer.id, nextTimer.id>>]
\* a variant with the two delays exchanged
scheduleCycle_AdvanceFirst(card, total, w) ==
  setTimers(w, Timer(freshId(w, 1), "flip", AUTO_JA_DURATION + AUTO_KO_DURATION, card, total),
               Timer(freshId(w, 2), "next", AUTO_JA_DURATION, card, total))

scheduleCycle(card, total, w) ==
  setTimers(w, Timer(freshId(w, 1), "flip", AUTO_JA_DURATION, card, total),
               Timer(freshId(w, 2), "next", AUTO_JA_DURATION + AUTO_KO_DURATION, card, total))

\* useEffect(..., [activeCard, isAutoPlaying, totalCards, ...]): autoplay
autoplayEffect(r, w) ==
  IF ~r.isAutoPlaying \/ activeCard(r).ref = 0 THEN clearAutoplayTimers(w)
  ELSE scheduleCycle(activeCard(r), totalCards(r),
                     speakText([w EXCEPT !.isFrontSide = TRUE], activeCard(r).hiragana, "ja-JP"))

\* the autoplay effect's cleanup, present when its last run scheduled timers
autoplayCleanup(prev, w) ==
  IF prev.isAutoPlaying /\ activeCard(prev).ref # 0 THEN clearAutoplayTimers(w) ELSE w

persistDeps(r) == <<r.selectedLevel, r.currentIndex, r.hasHydrated>>
clampDeps(r) == <<r.currentIndex, totalCards(r), r.hasHydrated>>
autoplayDeps(r) == <<activeCard(r).ref, r.isAutoPlaying, totalCards(r)>>
ComponentState(w) ==
  <<w.selectedLevel, w.currentIndex, w.isFrontSide, w.isAutoPlaying, w.hasHydrated>>

\* an effect runs on mount and whenever a dependency differs from the render before
runCleanup(prev, r, mount, w) ==
  IF ~mount /\ autoplayDeps(prev) # autoplayDeps(r) THEN autoplayCleanup(prev, w) ELSE w
runHydration(r, vocabChanged, mount, w) ==
  IF mount \/ vocabChanged THEN hydrationEffect(r, w) ELSE w
runPersist(prev, r, mount, w) ==
  IF mount \/ persistDeps(prev) # persistDeps(r) THEN persistEffect(r, w) ELSE w
runClamp(prev, r, mount, w) ==
  IF mount \/ clampDeps(prev) # clampDeps(r) THEN clampEffect(r, w) ELSE w
runAutoplay(prev, r, mount, w) ==
  IF mount \/ autoplayDeps(prev) # autoplayDeps(r) THEN autoplayEffect(r, w) ELSE w

\* One commit: the cleanups of the effects whose dependencies changed since
\* the render prev, then those effects in declaration order, all in the
\* closure of the render r.  vocabChanged: vocabData is a new object.
commitEffects(prev, r, vocabChanged, mount) ==
  runAutoplay(prev, r, mount,
    runClamp(prev, r, mount,
      runPersist(prev, r, mount,
        runHydration(r, vocabChanged, mount,
          runCleanup(prev, r, mount, r)))))

\* render and commit until no effect changes the component state any more
RECURSIVE settle(_, _, _, _)
rerender(r, w) ==
  IF ComponentState(w) = ComponentState(r) THEN w ELSE settle(r, w, FALSE, FALSE)
settle(prev, r, vocabChanged, mount) ==
  rerender(r, commitEffects(prev, r, vocabChanged, mount))

\* what an event leaves behind: the handler turned the world before into w,
\* then React re-rendered (if the component state or vocabData changed) and
\* ran the effects
afterEvent(before, w, vocabChanged) ==
  IF ComponentState(w) = ComponentState(before) /\ ~vocabChanged THEN w
  ELSE settle(before, w, vocabChanged, FALSE)

Publish(w) ==
  /\ vocabData' = w.vocabData
  /\ selectedLevel' = w.selectedLevel
  /\ currentIndex' = w.currentIndex
  /\ isFrontSide' = w.isFrontSide
  /\ isAutoPlaying' = w.isAutoPlaying
  /\ hasHydrated' = w.hasHydrated
  /\ autoplayTimers' = w.autoplayTimers
  /\ pendingTimers' = w.pendingTimers
  /\ storage' = w.storage
  /\ speechLog' = w.speechLog
  /\ writes' = w.writes
  /\ speechAvailable' = speechAvailable
  /\ initialVocabData' = initialVocabData
  /\ UNCHANGED <<sourceRecords, ingested, clampInput, clamped>>

\* history of the running autoplay: kept while it plays, reset when it stops;
\* cycle counts the advances modulo the length of the deck being played
History(w, advanced) ==
  IF ~w.isAutoPlaying THEN origin' = 0 /\ cycle' = 0
  ELSE IF ~isAutoPlaying THEN origin' = w.currentIndex /\ cycle' = 0
  ELSE origin' = origin /\ cycle' = IF advanced THEN (cycle + 1) % totalCards(w) ELSE cycle

\* an event of the mounted component ends in the world w
Step(w, event, arg, advanced) ==
  /\ Publish(w)
  /\ History(w, advanced)
  /\ lastEvent' = event
  /\ lastArg' = arg
  /\ prior' = Snapshot
  /\ deckBefore' = vocabData
  /\ found' = Absent
  /\ saved' = <<>>
  /\ UNCHANGED <<phase, touchStart, touchEnd>>

\* ---------------------------------------------------------------- actions
\* the component as constructed: the initial values of its state and ref
Constructed ==
  /\ phase = "constructed"
  /\ initialVocabData = getStaticProps(RawData)
  /\ vocabData = initialVocabData
  /\ selectedLevel = "N5"
  /\ currentIndex = 0
  /\ isFrontSide = TRUE
  /\ isAutoPlaying = FALSE
  /\ touchStart = Null
  /\ touchEnd = Null
  /\ hasHydrated = FALSE
  /\ autoplayTimers = <<>>
  /\ pendingTimers = {}
  /\ speechLog = <<>>
  /\ lastEvent = "construct"
  /\ lastArg = 0
  /\ prior = Snapshot
  /\ origin = 0
  /\ cycle = 0
  /\ writes = <<>>
  /\ found = Absent
  /\ saved = <<>>
  /\ deckBefore = buildEmptyVocab

NoClampInput == [value |-> 0, total |-> 0]

Init ==
  /\ Constructed
  /\ speechAvailable = TRUE
  /\ storage \in StartRecords
  /\ sourceRecords = RawData
  /\ ingested = <<>>
  /\ clampInput = NoClampInput
  /\ clamped = <<>>

\* the first commit: every effect runs once, then the renders they cause
Mount ==
  /\ phase = "constructed"
  /\ phase' = "mounted"
  /\ Publish(settle(World, World, FALSE, TRUE))
  /\ lastEvent' = "mount"
  /\ lastArg' = 0
  /\ prior' = Snapshot
  /\ deckBefore' = vocabData
  /\ found' = storage
  /\ UNCHANGED saved
  /\ UNCHANGED <<touchStart, touchEnd, origin, cycle>>

\* a variant that leaves the autoplay running
handleNextOn_KeepsPlaying(w) ==
  [w EXCEPT !.currentIndex = IF @ >= totalCards(w) - 1 THEN @ ELSE @ + 1,
            !.isFrontSide = TRUE]

\* a variant that wraps at the last card, as the autoplay does
handleNextOn_Wraps(w) ==
  [stopAutoplay(w) EXCEPT
     !.currentIndex = IF @ >= totalCards(w) - 1 THEN 0 ELSE @ + 1,
     !.isFrontSide = TRUE]

handleNextOn(w) ==
  [stopAutoplay(w) EXCEPT
     !.currentIndex = IF @ >= totalCards(w) - 1 THEN @ ELSE @ + 1,
     !.isFrontSide = TRUE]

handleNext ==
  /\ phase = "mounted"
  /\ Step(afterEvent(World, handleNextOn(World), FALSE), "next", 0, FALSE)

\* a variant that leaves the face as it is
handlePreviousOn_KeepsFace(w) ==
  [stopAutoplay(w) EXCEPT !.currentIndex = IF @ <= 0 THEN @ ELSE @ - 1]

handlePreviousOn(w) ==
  [stopAutoplay(w) EXCEPT
     !.currentIndex = IF @ <= 0 THEN @ ELSE @ - 1,
     !.isFrontSide = TRUE]

handlePrevious ==
  /\ phase = "mounted"
  /\ Step(afterEvent(World, handlePreviousOn(World), FALSE), "previous", 0, FALSE)

\* a variant that keeps the index of the level being left
handleLevelChangeOn_KeepsIndex(w, level) ==
  [stopAutoplay(w) EXCEPT !.selectedLevel = level, !.isFrontSide = TRUE]

\* a variant that puts every deck back in the order it was built in
handleLevelChangeOn_Rebuilds(w, level) ==
  [stopAutoplay(w) EXCEPT !.vocabData = w.initialVocabData,
                          !.selectedLevel = level, !.currentIndex = 0, !.isFrontSide = TRUE]

handleLevelChangeOn(w, level) ==
  [stopAutoplay(w) EXCEPT !.selectedLevel = level, !.currentIndex = 0, !.isFrontSide = TRUE]

handleLevelChange(level) ==
  /\ phase = "mounted"
  /\ Step(afterEvent(World, handleLevelChangeOn(World, level), FALSE), "level",
          CHOOSE i \in 1..Len(levels) : levels[i] = level, FALSE)

\* a variant that copies one way only
swap_Overwrite(deck, i, j) == [deck EXCEPT ![i + 1] = deck[j + 1]]

\* the Fisher-Yates loop: i from length-1 down to 1 (0-based), j = rnd[i] in 0..i
swap(deck, i, j) == [deck EXCEPT ![i + 1] = deck[j + 1], ![j + 1] = deck[i + 1]]
RECURSIVE fisherYates(_, _, _)
fisherYates(shuffled, i, rnd) ==
  IF i > 0 THEN fisherYates(swap(shuffled, i, rnd[i]), i - 1, rnd) ELSE shuffled
\* the values Math.floor(Math.random() * (i + 1)) can take, for every i of the loop
RandomDraws(n) == {rnd \in [1..(n - 1) -> 0..(n - 1)] : \A i \in 1..(n - 1) : rnd[i] <= i}

shuffleDeck(deck, rnd) ==
  IF Len(deck) <= 1 THEN deck ELSE fisherYates(deck, Len(deck) - 1, rnd)

\* a variant that returns the shuffled level alone, without the other levels
handleShuffleLevelOn_LevelAlone(w, rnd) ==
  [stopAutoplay(w) EXCEPT
     !.vocabData = [l \in Levels |->
                      IF l = w.selectedLevel THEN shuffleDeck(@[l], rnd) ELSE <<>>],
     !.currentIndex = 0,
     !.isFrontSide = TRUE]

handleShuffleLevelOn(w, rnd) ==
  [stopAutoplay(w) EXCEPT
     !.vocabData = [@ EXCEPT ![w.selectedLevel] = shuffleDeck(@, rnd)],
     !.currentIndex = 0,
     !.isFrontSide = TRUE]

handleShuffleLevel ==
  /\ phase = "mounted"
  /\ \E rnd \in RandomDraws(Max(totalCards(World), 1)) :
       Step(afterEvent(World, handleShuffleLevelOn(World, rnd), totalCards(World) > 1),
            "shuffle", 0, FALSE)

\* a variant that takes the value of the range input as it comes
handleSliderInputOn_Unclamped(w, nextIndex) ==
  [stopAutoplay(w) EXCEPT !.currentIndex = nextIndex, !.isFrontSide = TRUE]

handleSliderInputOn(w, nextIndex) ==
  [stopAutoplay(w) EXCEPT
     !.currentIndex = clampToRange(nextIndex, totalCards(w)),
     !.isFrontSide = TRUE]

\* values the range input is asked to take, two of them outside every deck
SliderTargets == {-1, 1, DeckCap - 1, DeckCap + 1}

handleSliderInput(nextIndex) ==
  /\ phase = "mounted"
  /\ Step(afterEvent(World, handleSliderInputOn(World, nextIndex), FALSE), "slider", nextIndex, FALSE)

tapSpeech(w, card, front) ==
  IF front THEN speakText(w, card.hiragana, "ja-JP") ELSE speakText(w, card.korean, "ko-KR")

\* a variant that turns the card and lets the autoplay run on
handleCardTapOn_KeepsPlaying(w) ==
  IF activeCard(w).ref = 0 THEN w
  ELSE [tapSpeech(w, activeCard(w), w.isFrontSide) EXCEPT !.isFrontSide = ~@]

handleCardTapOn(w) ==
  IF activeCard(w).ref = 0 THEN w
  ELSE [tapSpeech(stopAutoplay(w), activeCard(w), w.isFrontSide) EXCEPT !.isFrontSide = ~@]

handleCardTap ==
  /\ phase = "mounted"
  /\ Step(afterEvent(World, handleCardTapOn(World), FALSE), "tap", 0, FALSE)

\* a variant that starts without looking for a card
handleToggleAutoplayOn_Unchecked(w) ==
  IF w.isAutoPlaying THEN stopAutoplay(w)
  ELSE [w EXCEPT !.isFrontSide = TRUE, !.isAutoPlaying = TRUE]

\* a variant that starts the autoplay at the first card
handleToggleAutoplayOn_FromStart(w) ==
  IF w.isAutoPlaying THEN stopAutoplay(w)
  ELSE IF activeCard(w).ref = 0 THEN w
  ELSE [w EXCEPT !.currentIndex = 0, !.isFrontSide = TRUE, !.isAutoPlaying = TRUE]

handleToggleAutoplayOn(w) ==
  IF w.isAutoPlaying THEN stopAutoplay(w)
  ELSE IF activeCard(w).ref = 0 THEN w
  ELSE [w EXCEPT !.isFrontSide = TRUE, !.isAutoPlaying = TRUE]

handleToggleAutoplay ==
  /\ phase = "mounted"
  /\ Step(afterEvent(World, handleToggleAutoplayOn(World), FALSE), "toggle", 0, FALSE)

\* clientX values of the touches: a touch starts at 60 and moves to a point
\* at distance 60, 50, -50 or -60 from there
TouchStartXs == {60}
TouchMoveXs == {0, 10, 110, 120}
Quiet ==
  /\ Publish(World) /\ prior' = Snapshot /\ lastArg' = 0
  /\ deckBefore' = vocabData
  /\ found' = Absent
  /\ saved' = <<>>
  /\ UNCHANGED <<phase, origin, cycle>>

onTouchStart(x) ==
  /\ phase = "mounted"
  /\ touchEnd' = Null
  /\ touchStart' = x
  /\ lastEvent' = "touchStart"
  /\ Quiet

\* the browser sends touchmove to the element a touch started on, so a move
\* follows a start
onTouchMove(x) ==
  /\ phase = "mounted"
  /\ touchStart # Null
  /\ touchEnd' = x
  /\ lastEvent' = "touchMove"
  /\ UNCHANGED touchStart
  /\ Quiet

\* a variant that counts a distance equal to the threshold as a swipe
onTouchEndOn_Inclusive(w, start, end) ==
  IF start = Null \/ end = Null THEN w
  ELSE IF start - end >= minSwipeDistance THEN handleNextOn(w)
  ELSE IF start - end <= -minSwipeDistance THEN handlePreviousOn(w)
  ELSE w

onTouchEndOn(w, start, end) ==
  IF start = Null \/ end = Null THEN w
  ELSE IF start - end > minSwipeDistance THEN handleNextOn(w)
  ELSE IF start - end < -minSwipeDistance THEN handlePreviousOn(w)
  ELSE w

onTouchEnd ==
  /\ phase = "mounted"
  /\ Step(afterEvent(World, onTouchEndOn(World, touchStart, touchEnd), FALSE), "touchEnd", 0, FALSE)

\* a variant that flips the card only where it can speak
flipCallback_NeedsPort(w, t) ==
  IF w.speechAvailable
  THEN speakText([w EXCEPT !.isFrontSide = FALSE], t.card.korean, "ko-KR")
  ELSE w

\* the callbacks of the two timers the autoplay effect schedules
flipCallback(w, t) ==
  speakText([w EXCEPT !.isFrontSide = FALSE], t.card.korean, "ko-KR")
\* a variant that stays on the last card, as manual navigation does
nextCallback_NoWrap(w, t) ==
  [w EXCEPT !.currentIndex = IF @ >= t.total - 1 THEN @ ELSE @ + 1, !.isFrontSide = TRUE]
nextCallback(w, t) ==
  [w EXCEPT !.currentIndex = IF @ >= t.total - 1 THEN 0 ELSE @ + 1, !.isFrontSide = TRUE]
timerCallback(w, t) ==
  IF t.kind = "flip" THEN flipCallback(w, t) ELSE nextCallback(w, t)

\* the runtime fires the pending timer that is due first; the others are
\* that much closer to their own time
elapse(w, t) ==
  [w EXCEPT !.pendingTimers = {[u EXCEPT !.due = @ - t.due] : u \in @ \ {t}}]

\* a callback that runs after the component is gone: its state setters do
\* nothing, its speakText still speaks
detachedCallback(w, t) ==
  IF t.kind = "flip" THEN speakText(w, t.card.korean, "ko-KR") ELSE w

\* a timer that was not cleared fires whether or not the component is mounted
timerFires(t) ==
  /\ t \in pendingTimers
  /\ \A u \in pendingTimers : t.due <= u.due
  /\ Step(IF phase = "mounted"
          THEN afterEvent(World, timerCallback(elapse(World, t), t), FALSE)
          ELSE detachedCallback(elapse(World, t), t),
          IF t.kind = "flip" THEN "flipTimer" ELSE "nextTimer", 0, t.kind = "next")

\* a variant that clears the timers and leaves the speech running
teardownCleanup_TimersOnly(w) == clearAutoplayTimers(w)

\* unmount: the cleanups of the autoplay effect and of the teardown effect
teardownCleanup(w) == speechCancel(clearAutoplayTimers(w))

Defaults(w) ==
  [w EXCEPT !.vocabData = w.initialVocabData, !.selectedLevel = "N5", !.currentIndex = 0,
            !.isFrontSide = TRUE, !.isAutoPlaying = FALSE, !.hasHydrated = FALSE,
            !.autoplayTimers = <<>>]

\* the component is destroyed: its cleanups run, its state is gone
Unmount ==
  /\ phase = "mounted"
  /\ phase' = "unmounted"
  /\ Publish(Defaults(teardownCleanup(autoplayCleanup(World, World))))
  /\ touchStart' = Null
  /\ touchEnd' = Null
  /\ lastEvent' = "unmount"
  /\ lastArg' = 0
  /\ prior' = Snapshot
  /\ deckBefore' = buildEmptyVocab
  /\ found' = Absent
  /\ saved' = <<selectedLevel, currentIndex>>
  /\ origin' = 0
  /\ cycle' = 0

\* the page is opened again: a new component over the same browser profile
Reload ==
  /\ phase = "unmounted"
  /\ phase' = "constructed"
  /\ Publish(Defaults([World EXCEPT !.pendingTimers = {}]))
  /\ lastEvent' = "construct"
  /\ lastArg' = 0
  /\ prior' = Snapshot'
  /\ deckBefore' = buildEmptyVocab
  /\ found' = Absent
  /\ UNCHANGED saved
  /\ UNCHANGED <<touchStart, touchEnd, origin, cycle>>

Next ==
  \/ Mount
  \/ handleNext
  \/ handlePrevious
  \/ \E level \in Levels : handleLevelChange(level)
  \/ handleShuffleLevel
  \/ \E nextIndex \in SliderTargets : handleSliderInput(nextIndex)
  \/ handleCardTap
  \/ handleToggleAutoplay
  \/ \E x \in TouchStartXs : onTouchStart(x)
  \/ \E x \in TouchMoveXs : onTouchMove(x)
  \/ onTouchEnd
  \/ \E t \in pendingTimers : timerFires(t)
  \/ Unmount
  \/ Reload

Spec == Init /\ [][Next]_vars

\* ----------------------------------------------- getStaticProps on its own
\* the kinds of record a words file may hold: complete ones, one without
\* korean, one without level, one with a level outside the five, one without hiragana
RecordKinds ==
  { RawEntry(<<"ja", 1>>, <<"ko", 1>>, "N5"),
    RawEntry(<<"ja", 2>>, <<"ko", 2>>, "N1"),
    RawEntry(<<"ja", 3>>, NoText, "N4"),
    RawEntry(<<"ja", 4>>, <<"ko", 4>>, ""),
    RawEntry(<<"ja", 5>>, <<"ko", 5>>, "N6"),
    RawEntry(NoText, <<"ko", 6>>, "N5") }
RawInputs == UNION {[1..n -> RecordKinds] : n \in 0..IngestLen}

IngestInit ==
  /\ Constructed
  /\ speechAvailable = TRUE
  /\ storage = Absent
  /\ sourceRecords \in RawInputs
  /\ ingested = <<>>
  /\ clampInput = NoClampInput
  /\ clamped = <<>>

ingestRecords ==
  /\ ingested = <<>>
  /\ ingested' = <<getStaticProps(sourceRecords)>>
  /\ UNCHANGED <<phase, initialVocabData, vocabData, selectedLevel, currentIndex, isFrontSide,
                 isAutoPlaying, touchStart, touchEnd, hasHydrated, autoplayTimers,
                 pendingTimers, storage, speechAvailable, speechLog, lastEvent, lastArg,
                 prior, origin, cycle, writes, found, saved, deckBefore, sourceRecords,
                 clampInput, clamped>>

IngestNext == ingestRecords

IngestSpec == IngestInit /\ [][IngestNext]_vars

\* ------------------------------------------------- clampToRange on its own
\* one call of clampToRange for every value and total within ClampSpan
ClampInputs == [value : -ClampSpan..ClampSpan, total : -ClampSpan..ClampSpan]

ClampInit ==
  /\ Constructed
  /\ speechAvailable = TRUE
  /\ storage = Absent
  /\ sourceRecords = RawData
  /\ ingested = <<>>
  /\ clampInput \in ClampInputs
  /\ clamped = <<>>

applyClamp ==
  /\ clamped = <<>>
  /\ clamped' = <<clampToRange(clampInput.value, clampInput.total)>>
  /\ UNCHANGED <<phase, initialVocabData, vocabData, selectedLevel, currentIndex, isFrontSide,
                 isAutoPlaying, touchStart, touchEnd, hasHydrated, autoplayTimers,
                 pendingTimers, storage, speechAvailable, speechLog, lastEvent, lastArg,
                 prior, origin, cycle, writes, found, saved, deckBefore, sourceRecords,
                 ingested, clampInput>>

ClampNext == applyClamp

ClampSpec == ClampInit /\ [][ClampNext]_vars

\* ----------------------------------------------------------- properties
total == totalCards(World)
card == activeCard(World)
Requested(text, lang) ==
  \E i \in 1..Len(speechLog) : speechLog[i] = LogEntry("speakText", text, lang)
Spoken(text, lang) ==
  \E i \in 2..Len(speechLog) :
    speechLog[i] = LogEntry("speak", text, lang) /\ speechLog[i - 1] = CancelEntry
Said(text, lang) == Requested(text, lang) /\ (text # NoText => Spoken(text, lang))
Pending == {<<t.kind, t.due, t.card.ref>> : t \in pendingTimers}

Swiped == lastEvent = "touchEnd" /\ touchStart # Null /\ touchEnd # Null
ManualNext == lastEvent = "next" \/ (Swiped /\ touchStart - touchEnd > minSwipeDistance)
ManualPrevious ==
  lastEvent = "previous" \/ (Swiped /\ touchStart - touchEnd < -minSwipeDistance)
ManualCommand ==
  ManualNext \/ ManualPrevious \/ lastEvent \in {"slider", "level", "shuffle"}

\* C1: once hydration has completed, currentIndex lies in [0, length of the
\* selected deck - 1], and is 0 when that deck is empty.
C1_IndexInRange ==
  hasHydrated => IF total = 0 THEN currentIndex = 0
                 ELSE currentIndex >= 0 /\ currentIndex < total
\* hydration found index 2 stored for the empty level N2
C1_StaleIndexOnEmptyDeck ==
  /\ hasHydrated /\ lastEvent = "mount"
  /\ selectedLevel = "N2" /\ total = 0 /\ currentIndex = 0

\* C2: next, previous, a slider move, a swipe beyond the threshold, a level
\* change or a shuffle issued while the autoplay is playing leaves it stopped
\* with no timer pending, also when the index does not move; and a flip or
\* advance timer only ever fires while the autoplay is playing.
C2_CommandStopsAutoplay ==
  /\ (prior.isAutoPlaying /\ ManualCommand) =>
       (~isAutoPlaying /\ pendingTimers = {} /\ autoplayTimers = <<>>)
  /\ lastEvent \in {"flipTimer", "nextTimer"} => prior.isAutoPlaying
\* next at the last card while the autoplay was playing
C2_NextAtLastWhilePlaying ==
  /\ lastEvent = "next" /\ prior.isAutoPlaying /\ total >= 2
  /\ prior.currentIndex = total - 1 /\ currentIndex = total - 1
  /\ ~isAutoPlaying /\ pendingTimers = {}

\* C3: on a deck of n >= 2 cards the autoplay started at index i shows the
\* front and asks for the front text in ja-JP, with the flip due after
\* AUTO_JA_DURATION and the advance AUTO_KO_DURATION later; the flip shows the
\* back and asks for the back text in ko-KR; the advance moves to (i+1) mod n
\* with the front shown and starts the same cycle there; after k advances
\* the index is (i+k) mod n, so it is i again after n of them.
C3_AutoplayCycle ==
  (phase = "mounted" /\ total >= 2) =>
    /\ (lastEvent \in {"toggle", "nextTimer"} /\ isAutoPlaying) =>
         /\ isFrontSide
         /\ Said(card.hiragana, "ja-JP")
         /\ Pending = { <<"flip", AUTO_JA_DURATION, card.ref>>,
                        <<"next", AUTO_JA_DURATION + AUTO_KO_DURATION, card.ref>> }
    /\ (lastEvent = "toggle" /\ isAutoPlaying) => currentIndex = prior.currentIndex
    /\ lastEvent = "flipTimer" =>
         /\ ~isFrontSide
         /\ currentIndex = prior.currentIndex
         /\ Said(card.korean, "ko-KR")
         /\ Pending = { <<"next", AUTO_KO_DURATION, card.ref>> }
    /\ lastEvent = "nextTimer" =>
         /\ isAutoPlaying
         /\ currentIndex = (prior.currentIndex + 1) % total
    /\ isAutoPlaying => currentIndex = (origin + cycle) % total
\* started on the second card, the autoplay is back there after wrapping
C3_BackAtOrigin ==
  /\ isAutoPlaying /\ lastEvent = "nextTimer" /\ total >= 2
  /\ origin = 1 /\ cycle = 0 /\ currentIndex = 1 /\ prior.currentIndex = 0

\* C4: while the autoplay is playing on a deck of one card or more, an advance
\* is always pending: the loop never rests with isAutoPlaying true and no timer.
C4_LoopNeverStalls ==
  (phase = "mounted" /\ isAutoPlaying /\ total >= 1) =>
    \E t \in pendingTimers : t.kind = "next"

\* C5: at most one flip timer and one advance timer are pending, they are the
\* ones of the running sequence, and none is pending while the autoplay is stopped.
C5_OneSequence ==
  /\ Cardinality({t \in pendingTimers : t.kind = "flip"}) <= 1
  /\ Cardinality({t \in pendingTimers : t.kind = "next"}) <= 1
  /\ \A t \in pendingTimers : t.id \in Range(autoplayTimers)
  /\ (\E t \in pendingTimers : t.kind = "flip") => (\E t \in pendingTimers : t.kind = "next")
  /\ ~isAutoPlaying => pendingTimers = {}
\* the autoplay was stopped by its toggle between the flip and the advance
C5_StoppedMidCycle ==
  /\ lastEvent = "toggle" /\ prior.isAutoPlaying /\ ~prior.isFrontSide
  /\ ~isAutoPlaying /\ pendingTimers = {}

\* C6: on a non-empty deck a manual next adds exactly 1 to the index unless it
\* is the last, a manual previous subtracts exactly 1 unless it is 0; at those
\* two ends the index stays, and the result is always within the deck.
C6_ManualNavigation ==
  (phase = "mounted" /\ total > 0) =>
    /\ ManualNext =>
         currentIndex = IF prior.currentIndex = total - 1 THEN total - 1
                        ELSE prior.currentIndex + 1
    /\ ManualPrevious =>
         currentIndex = IF prior.currentIndex = 0 THEN 0 ELSE prior.currentIndex - 1
    /\ (ManualNext \/ ManualPrevious) => (currentIndex >= 0 /\ currentIndex < total)
\* next at the last card of a deck of two or more
C6_NextAtLast ==
  /\ lastEvent = "next" /\ total >= 2
  /\ prior.currentIndex = total - 1 /\ currentIndex = total - 1

\* C7: a manual next at the last index, or previous at index 0, leaves the
\* level, the index and the shown face as they were.
C7_BoundaryIsNoOp ==
  (phase = "mounted" /\ total > 0 /\
     ((ManualNext /\ prior.currentIndex = total - 1) \/
      (ManualPrevious /\ prior.currentIndex = 0))) =>
    /\ selectedLevel = prior.selectedLevel
    /\ currentIndex = prior.currentIndex
    /\ isFrontSide = prior.isFrontSide

\* C8: a level change selects the level asked for at index 0, front shown,
\* autoplay stopped and no timer pending.
C8_SelectLevel ==
  lastEvent = "level" =>
    /\ selectedLevel = levels[lastArg]
    /\ currentIndex = 0
    /\ isFrontSide
    /\ ~isAutoPlaying /\ pendingTimers = {} /\ autoplayTimers = <<>>
\* N5 selected again while it was playing at its second card, remembered as such
C8_ReselectWhilePlaying ==
  /\ lastEvent = "level" /\ levels[lastArg] = "N5"
  /\ prior.selectedLevel = "N5" /\ prior.currentIndex = 1 /\ prior.isAutoPlaying
  /\ currentIndex = 0

\* C9: an event that changes the index or the level ends with the front shown.
C9_NewCardShowsFront ==
  (phase = "mounted" /\
     (currentIndex # prior.currentIndex \/ selectedLevel # prior.selectedLevel)) =>
    isFrontSide
\* previous from a card whose back was showing
C9_PreviousFromBack ==
  /\ lastEvent = "previous" /\ ~prior.isFrontSide
  /\ currentIndex = prior.currentIndex - 1 /\ isFrontSide

\* C10: a tap on the active card toggles the face and asks for the text of
\* the face now shown in that face's language: the back text in ko-KR when
\* the back is now shown, the front text in ja-JP when the front is.
C10_TapSpeaksShownFace ==
  (lastEvent = "tap" /\ card.ref # 0) =>
    /\ isFrontSide = ~prior.isFrontSide
    /\ IF isFrontSide THEN Requested(card.hiragana, "ja-JP")
       ELSE Requested(card.korean, "ko-KR")

\* C11: every speak on the speech port comes right after a cancel of the same
\* event, and every event that began with the autoplay playing and ends with
\* it stopped, the unmount included, has issued a cancel.
C11_CancelBeforeSpeak ==
  /\ \A i \in 1..Len(speechLog) :
       speechLog[i].op = "speak" => (i > 1 /\ speechLog[i - 1] = CancelEntry)
  /\ (prior.isAutoPlaying /\ ~isAutoPlaying) =>
       \E i \in 1..Len(speechLog) : speechLog[i] = CancelEntry
\* the component was unmounted while the autoplay was playing
C11_UnmountWhilePlaying ==
  /\ lastEvent = "unmount" /\ prior.isAutoPlaying /\ ~isAutoPlaying
  /\ \E i \in 1..Len(speechLog) : speechLog[i] = CancelEntry

\* C12: on an empty deck the autoplay toggle starts nothing (isAutoPlaying
\* stays false, no timer is scheduled), and next, previous, a slider move and
\* a tap leave the index at 0 and the face and the autoplay as they were.
C12_EmptyDeck ==
  (phase = "mounted" /\ total = 0 /\
     lastEvent \in {"toggle", "next", "previous", "slider", "tap"}) =>
    /\ currentIndex = 0 /\ prior.currentIndex = 0
    /\ isFrontSide = prior.isFrontSide
    /\ isAutoPlaying = prior.isAutoPlaying
    /\ ~isAutoPlaying /\ pendingTimers = {} /\ autoplayTimers = <<>>
\* the autoplay toggle on the empty level N1
C12_ToggleOnEmptyLevel ==
  /\ lastEvent = "toggle" /\ selectedLevel = "N1" /\ total = 0
  /\ ~isAutoPlaying /\ pendingTimers = {}

\* C13: at the end of a touch with distance = touchStart - touchEnd, a distance
\* above minSwipeDistance acts as next, one below -minSwipeDistance as
\* previous, and anything else (a distance of exactly 50 or -50, or no move at
\* all) calls no handler: index, face and autoplay stay and nothing is cancelled.
C13_SwipeThreshold ==
  lastEvent = "touchEnd" =>
    IF Swiped /\ touchStart - touchEnd > minSwipeDistance
    THEN /\ currentIndex = IF prior.currentIndex >= total - 1 THEN prior.currentIndex
                            ELSE prior.currentIndex + 1
         /\ isFrontSide /\ ~isAutoPlaying /\ speechLog = <<CancelEntry>>
    ELSE IF Swiped /\ touchStart - touchEnd < -minSwipeDistance
    THEN /\ currentIndex = IF prior.currentIndex <= 0 THEN prior.currentIndex
                            ELSE prior.currentIndex - 1
         /\ isFrontSide /\ ~isAutoPlaying /\ speechLog = <<CancelEntry>>
    ELSE /\ currentIndex = prior.currentIndex
         /\ isFrontSide = prior.isFrontSide
         /\ isAutoPlaying = prior.isAutoPlaying
         /\ speechLog = <<>>
\* a touch that moved exactly the threshold while the autoplay was playing
C13_ExactlyThreshold ==
  /\ lastEvent = "touchEnd" /\ Swiped /\ touchStart - touchEnd = minSwipeDistance
  /\ prior.isAutoPlaying /\ isAutoPlaying /\ pendingTimers # {}

\* C14: clampToRange(v, total) is 0 when total <= 0; otherwise it lies in
\* 0..total-1, is v when v is in that range, 0 when v < 0 and total-1 when
\* v > total-1.
C14_Clamp ==
  clamped # <<>> =>
    /\ clampInput.total <= 0 => clamped[1] = 0
    /\ clampInput.total > 0 =>
         /\ clamped[1] >= 0 /\ clamped[1] <= clampInput.total - 1
         /\ (clampInput.value >= 0 /\ clampInput.value <= clampInput.total - 1) =>
              clamped[1] = clampInput.value
         /\ clampInput.value < 0 => clamped[1] = 0
         /\ clampInput.value > clampInput.total - 1 => clamped[1] = clampInput.total - 1
\* a value above the range of a total of 2
C14_AboveRange ==
  clampInput = [value |-> 3, total |-> 2] /\ clamped = <<1>>

Occurrences(deck, c) == Cardinality({i \in 1..Len(deck) : deck[i] = c})

\* C15: after a shuffle the deck of the selected level has the length it had
\* and holds every card as many times as before, whatever the random draws;
\* a deck of one card or none is left exactly as it was.
C15_ShufflePermutes ==
  lastEvent = "shuffle" =>
    /\ Len(vocabData[selectedLevel]) = Len(deckBefore[selectedLevel])
    /\ \A c \in Range(deckBefore[selectedLevel]) \cup Range(vocabData[selectedLevel]) :
         Occurrences(vocabData[selectedLevel], c) = Occurrences(deckBefore[selectedLevel], c)
    /\ Len(deckBefore[selectedLevel]) <= 1 =>
         vocabData[selectedLevel] = deckBefore[selectedLevel]
\* a shuffle that changed the order of a deck of DeckCap cards
C15_OrderChanged ==
  /\ lastEvent = "shuffle" /\ Len(deckBefore[selectedLevel]) = DeckCap
  /\ vocabData[selectedLevel] # deckBefore[selectedLevel]
  /\ Range(vocabData[selectedLevel]) = Range(deckBefore[selectedLevel])

C17_StoredIsCurrent ==
  /\ hasHydrated =>
       /\ storage.kind = "json" /\ storage.level = selectedLevel
       /\ storage.hasPositions /\ storage.positions[selectedLevel] = JNum(currentIndex)
  /\ \A i \in 1..Len(writes) :
       /\ writes[i].level = selectedLevel
       /\ writes[i].positions[selectedLevel] = JNum(currentIndex)

\* C18: a session mounted after a session at level L and index i was
\* unmounted, over decks of the same lengths, starts at level L and index i;
\* and a mount that finds index i stored for level L whose deck has n cards
\* starts at L with i limited to 0..n-1, or 0 when n = 0.
C18_RoundTrip ==
  lastEvent = "mount" =>
    /\ saved # <<>> => (selectedLevel = saved[1] /\ currentIndex = saved[2])
    /\ (found.kind = "json" /\ isJLPTLevel(found.level) /\ found.hasPositions /\
          found.positions[found.level].t = "num") =>
         /\ selectedLevel = found.level
         /\ currentIndex =
              IF Len(initialVocabData[found.level]) = 0 THEN 0
              ELSE IF found.positions[found.level].v > Len(initialVocabData[found.level]) - 1
              THEN Len(initialVocabData[found.level]) - 1
              ELSE IF found.positions[found.level].v < 0 THEN 0
              ELSE found.positions[found.level].v
\* the session before was unmounted at the second card of N5
C18_BackAtLevelAndIndex ==
  /\ lastEvent = "mount" /\ saved = <<"N5", 1>>
  /\ selectedLevel = "N5" /\ currentIndex = 1 /\ hasHydrated

\* C19: a write stores, for every level other than the selected one, the
\* position that was stored before it; so after a change of level the record
\* still holds the index of the level that was left.
C19_WriteKeepsOtherLevels ==
  /\ \A i \in 1..Len(writes) :
       \A M \in Levels \ {writes[i].level} : writes[i].positions[M] = writes[i].before[M]
  /\ (lastEvent = "level" /\ selectedLevel # prior.selectedLevel) =>
       storage.positions[prior.selectedLevel] = JNum(prior.currentIndex)
\* N5 left at its second card for N4
C19_LeftLevelRemembered ==
  /\ lastEvent = "level" /\ prior.selectedLevel = "N5" /\ prior.currentIndex = 1
  /\ selectedLevel = "N4" /\ Len(writes) = 1
  /\ storage.level = "N4" /\ storage.positions["N4"] = JNum(0)
  /\ storage.positions["N5"] = JNum(1)

\* C20: a mount that finds no record, text that does not parse, or a record
\* without a level of the enumeration or without a positions map completes
\* hydration and starts with the defaults: level N5 and index 0.
C20_BadRecordGivesDefaults ==
  (lastEvent = "mount" /\
     (found.kind \in {"absent", "garbage"} \/ ~isJLPTLevel(found.level) \/ ~found.hasPositions)) =>
    /\ hasHydrated
    /\ selectedLevel = "N5"
    /\ currentIndex = 0

InDeck(level, index) ==
  IF Len(vocabData[level]) = 0 THEN index = 0
  ELSE index >= 0 /\ index <= Len(vocabData[level]) - 1

\* C21: a mount that finds a record that parses selects the stored level if
\* it is one of the five levels and keeps N5 otherwise; the index becomes the
\* number stored for the level in use, limited to that level's deck (0 if no
\* number is stored), and no index outside the deck is ever committed: the
\* one write of the mount stores the index the session starts with.
C21_HydratedLevelAndIndex ==
  (lastEvent = "mount" /\ found.kind = "json") =>
    /\ selectedLevel = IF isJLPTLevel(found.level) THEN found.level ELSE "N5"
    /\ currentIndex =
         IF found.hasPositions /\ found.positions[selectedLevel].t = "num"
         THEN IF Len(vocabData[selectedLevel]) = 0 THEN 0
              ELSE IF found.positions[selectedLevel].v > Len(vocabData[selectedLevel]) - 1
              THEN Len(vocabData[selectedLevel]) - 1
              ELSE IF found.positions[selectedLevel].v < 0 THEN 0
              ELSE found.positions[selectedLevel].v
         ELSE 0
    /\ InDeck(selectedLevel, currentIndex)
    /\ \A i \in 1..Len(writes) :
         /\ writes[i].positions[writes[i].level].t = "num"
         /\ InDeck(writes[i].level, writes[i].positions[writes[i].level].v)
\* the record names a level outside the five and holds a negative index for N5
C21_BogusLevelNegativeIndex ==
  /\ lastEvent = "mount" /\ found.kind = "json" /\ found.level = "N9"
  /\ found.positions["N5"] = JNum(-1)
  /\ selectedLevel = "N5" /\ currentIndex = 0

Cards(vocab) == UNION {Range(vocab[l]) : l \in Levels}
RECURSIVE SumOfLengths(_, _)
SumOfLengths(vocab, i) ==
  IF i > Len(levels) THEN 0 ELSE Len(vocab[levels[i]]) + SumOfLengths(vocab, i + 1)

\* C22: after ingestion no deck holds a card with an empty front text or an
\* empty back text, and every card of the deck of level L has level L.
C22_DecksHoldCompleteCards ==
  ingested # <<>> =>
    \A l \in Levels : \A i \in 1..Len(ingested[1][l]) :
      /\ ingested[1][l][i].hiragana # NoText
      /\ ingested[1][l][i].korean # NoText
      /\ ingested[1][l][i].level = l

\* C23: a source record without a level, or with a level outside the five,
\* is in no deck; every card of a deck is a source record of that level, no
\* record is in two places, and the deck lengths add up to the number of
\* records ingestion accepted (those with a front text and one of the five levels).
C23_LevelDecidesDeck ==
  ingested # <<>> =>
    /\ \A c \in Cards(ingested[1]) :
         /\ c.ref \in 1..Len(sourceRecords)
         /\ isJLPTLevel(sourceRecords[c.ref].level)
         /\ c \in Range(ingested[1][sourceRecords[c.ref].level])
    /\ \A l \in Levels : \A i, j \in 1..Len(ingested[1][l]) :
         ingested[1][l][i].ref = ingested[1][l][j].ref => i = j
    /\ SumOfLengths(ingested[1], 1) =
         Cardinality({i \in 1..Len(sourceRecords) :
                        sourceRecords[i].hiragana # NoText /\ isJLPTLevel(sourceRecords[i].level)})
\* a record without level between two complete ones
C23_LevelLessRecordDropped ==
  /\ ingested # <<>> /\ Len(sourceRecords) = 3
  /\ sourceRecords[2].level = "" /\ sourceRecords[2].hiragana # NoText
  /\ sourceRecords[1].level = "N5" /\ sourceRecords[3].level = "N1"
  /\ SumOfLengths(ingested[1], 1) = 2
  /\ Len(ingested[1]["N5"]) = 1 /\ Len(ingested[1]["N1"]) = 1

\* C24: an unmount clears every pending timer and cancels the speech, and
\* writes nothing; and nothing happens to the component that was unmounted:
\* no flip or advance timer fires, nothing is requested of the speech port
\* and nothing is written.
C24_TeardownIsFinal ==
  /\ lastEvent = "unmount" =>
       /\ pendingTimers = {} /\ autoplayTimers = <<>>
       /\ speechLog = <<CancelEntry>>
       /\ writes = <<>>
  /\ phase = "unmounted" =>
       /\ lastEvent = "unmount"
       /\ pendingTimers = {}
       /\ \A i \in 1..Len(speechLog) : speechLog[i].op = "cancel"
\* unmounted between the flip and the advance of a running autoplay
C24_UnmountedMidCycle ==
  /\ phase = "unmounted" /\ lastEvent = "unmount"
  /\ prior.isAutoPlaying /\ ~prior.isFrontSide
  /\ pendingTimers = {} /\ speechLog = <<CancelEntry>>

\* ---------------------------------------------------------------- C25
\* a browser without window.speechSynthesis on its first visit; the levels
\* chosen are the full deck, the deck of one card without a back text and an
\* empty deck
SilentRecords == { Absent }
SilentLevels == {"N5", "N4", "N2"}

SilentInit ==
  /\ Constructed
  /\ speechAvailable = FALSE
  /\ storage \in SilentRecords
  /\ sourceRecords = RawData
  /\ ingested = <<>>
  /\ clampInput = NoClampInput
  /\ clamped = <<>>

SilentNext ==
  \/ Mount
  \/ handleNext
  \/ handlePrevious
  \/ \E level \in SilentLevels : handleLevelChange(level)
  \/ handleShuffleLevel
  \/ \E nextIndex \in SliderTargets : handleSliderInput(nextIndex)
  \/ handleCardTap
  \/ handleToggleAutoplay
  \/ \E x \in TouchStartXs : onTouchStart(x)
  \/ \E x \in TouchMoveXs : onTouchMove(x)
  \/ onTouchEnd
  \/ \E t \in pendingTimers : timerFires(t)
  \/ Unmount
  \/ Reload

SilentSpec == SilentInit /\ [][SilentNext]_vars

\* the same component in the same state, in a browser whose speech port is
\* the other way round
OtherPort == [World EXCEPT !.speechAvailable = ~@]
ApartFromSpeech(w) == [w EXCEPT !.speechAvailable = TRUE, !.speechLog = <<>>]
DueFirst(kind) ==
  {t \in pendingTimers : t.kind = kind /\ \A u \in pendingTimers : t.due <= u.due}
FiredWith(w, t) ==
  IF phase = "mounted" THEN afterEvent(w, timerCallback(elapse(w, t), t), FALSE)
  ELSE detachedCallback(elapse(w, t), t)
\* what the event just taken leads to from w
Outcomes(w, event, arg) ==
  CASE event = "mount" -> {settle(w, w, FALSE, TRUE)}
    [] event = "next" -> {afterEvent(w, handleNextOn(w), FALSE)}
    [] event = "previous" -> {afterEvent(w, handlePreviousOn(w), FALSE)}
    [] event = "level" ->
         {afterEvent(w, handleLevelChangeOn(w, levels[arg]), FALSE)}
    [] event = "shuffle" ->
         {afterEvent(w, handleShuffleLevelOn(w, rnd), totalCards(w) > 1) :
            rnd \in RandomDraws(Max(totalCards(w), 1))}
    [] event = "slider" -> {afterEvent(w, handleSliderInputOn(w, arg), FALSE)}
    [] event = "tap" -> {afterEvent(w, handleCardTapOn(w), FALSE)}
    [] event = "toggle" -> {afterEvent(w, handleToggleAutoplayOn(w), FALSE)}
    [] event = "touchEnd" ->
         {afterEvent(w, onTouchEndOn(w, touchStart, touchEnd), FALSE)}
    [] event = "flipTimer" -> {FiredWith(w, t) : t \in DueFirst("flip")}
    [] event = "nextTimer" -> {FiredWith(w, t) : t \in DueFirst("next")}
    [] event = "unmount" -> {Defaults(teardownCleanup(autoplayCleanup(w, w)))}
    [] event = "construct" -> {Defaults([w EXCEPT !.pendingTimers = {}])}
    [] OTHER -> {w}
SameStep ==
  ApartFromSpeech([World' EXCEPT !.writes = writes'])
    \in {ApartFromSpeech(o) : o \in Outcomes(OtherPort, lastEvent', lastArg')}

\* C25: without a speech port every command and every timer firing leads to
\* the state, the timers and the writes it leads to with one: level, index,
\* face, autoplay flag, decks, stored record and setItem calls are those of the
\* component whose speech port is there, and only the speech log differs; no
\* speech is ever issued and the flip and the advance still happen.
C25_SameWithOrWithoutSpeech == [][SameStep]_vars

\* a card flipped by the autoplay in a browser that cannot speak
C25_SilentFlip ==
  /\ ~speechAvailable /\ lastEvent = "flipTimer" /\ prior.isFrontSide /\ ~isFrontSide
  /\ Len(speechLog) = 1 /\ speechLog[1].op = "speakText"

\* C26: after a shuffle of a deck of more than one card, once its effects
\* have run, the first card is shown front up, the autoplay is stopped, the
\* level is the one it was and the stored record holds index 0 for it.
C26_ShuffleStartsOver ==
  (lastEvent = "shuffle" /\ Len(deckBefore[prior.selectedLevel]) > 1) =>
    /\ currentIndex = 0 /\ isFrontSide /\ ~isAutoPlaying
    /\ selectedLevel = prior.selectedLevel
    /\ storage.kind = "json" /\ storage.hasPositions
    /\ storage.positions[selectedLevel] = JNum(0)

\* C27: in every autoplay cycle the flip comes before the advance: while the
\* flip of a cycle is pending, the advance of the same card is pending and due
\* later; an advance left alone is the advance of the card on show, back up;
\* the flip fires on the front with its advance still to come and the advance
\* fires on the back.
C27_FlipBeforeAdvance ==
  /\ \A f \in pendingTimers : f.kind = "flip" =>
       \E n \in pendingTimers : n.kind = "next" /\ n.card = f.card /\ f.due < n.due
  /\ \A n \in pendingTimers :
       (n.kind = "next" /\ ~\E f \in pendingTimers : f.kind = "flip") =>
         /\ ~isFrontSide /\ n.card = card
  /\ lastEvent = "flipTimer" =>
       /\ prior.isFrontSide
       /\ phase = "mounted" => \E n \in pendingTimers : n.kind = "next" /\ n.card = card
  /\ lastEvent = "nextTimer" => ~prior.isFrontSide
\* the advance of a cycle whose flip has fired
C27_AdvanceAfterFlip ==
  /\ lastEvent = "nextTimer" /\ ~prior.isFrontSide /\ isAutoPlaying
  /\ currentIndex = prior.currentIndex + 1 /\ isFrontSide

\* C28: nothing is written before the stored record has been read: a
\* component that has not hydrated has written nothing, the first write of a
\* mount is built on the positions the mount found, and a record found with
\* a level of the enumeration and an index inside that level's deck is never
\* replaced by one that holds another level or another index for that level.
C28_NoWriteBeforeHydration ==
  /\ ~hasHydrated => writes = <<>>
  /\ lastEvent = "mount" =>
       /\ hasHydrated
       /\ writes # <<>> => writes[1].before = positionsOf(found)
       /\ ( /\ found.kind = "json" /\ isJLPTLevel(found.level) /\ found.hasPositions
            /\ found.positions[found.level].t = "num"
            /\ InDeck(found.level, found.positions[found.level].v) ) =>
            /\ \A i \in 1..Len(writes) :
                 /\ writes[i].level = found.level
                 /\ writes[i].positions[found.level] = found.positions[found.level]
            /\ storage.level = found.level
            /\ storage.positions[found.level] = found.positions[found.level]
\* the record of a session left at the second card of N5, with the first
\* card of N4 remembered, is found and kept
C28_StoredSurvivesMount ==
  /\ lastEvent = "mount" /\ found.kind = "json" /\ found.level = "N5"
  /\ found.positions["N5"] = JNum(1) /\ found.positions["N4"] = JNum(0)
  /\ Len(writes) = 1 /\ writes[1].level = "N5" /\ writes[1].positions = found.positions
  /\ selectedLevel = "N5" /\ currentIndex = 1

\* ---------------------------------------------------------------- C29
\* a browser profile whose record holds, beside an index for N4, a key that
\* is no level and a value that is no number
StaleRecords ==
  { StoredText("N4", TRUE, [NoPositions EXCEPT !["N4"] = JNum(0), !["N9"] = JStr]) }

StaleInit ==
  /\ Constructed
  /\ speechAvailable = TRUE
  /\ storage \in StaleRecords
  /\ sourceRecords = RawData
  /\ ingested = <<>>
  /\ clampInput = NoClampInput
  /\ clamped = <<>>

StaleSpec == StaleInit /\ [][Next]_vars

\* C29: every record written has a level of the enumeration and a positions
\* map whose keys are levels of the enumeration, each mapped to an integer
\* that is not negative, whatever record the mount found.
C29_WrittenRecordConforms ==
  \A i \in 1..Len(writes) :
    /\ isJLPTLevel(writes[i].level)
    /\ \A k \in PosKeys :
         writes[i].positions[k].t # "none" =>
           /\ isJLPTLevel(k)
           /\ writes[i].positions[k].t = "num"
           /\ writes[i].positions[k].v >= 0

\* C30: the slider puts the index at its target brought into the selected
\* deck (0 on an empty deck, 0 below the deck, the last card above it, the
\* target itself inside), shows the front and stops the autoplay with its
\* timers; the level and every deck stay as they were, and whatever the
\* event writes is that index under that level.
C30_SliderSetsIndex ==
  (lastEvent = "slider" /\ phase = "mounted") =>
    /\ selectedLevel = prior.selectedLevel
    /\ vocabData = deckBefore
    /\ currentIndex =
         IF Len(deckBefore[prior.selectedLevel]) = 0 THEN 0
         ELSE IF lastArg < 0 THEN 0
         ELSE IF lastArg > Len(deckBefore[prior.selectedLevel]) - 1
         THEN Len(deckBefore[prior.selectedLevel]) - 1
         ELSE lastArg
    /\ isFrontSide /\ ~isAutoPlaying /\ pendingTimers = {}
    /\ \A i \in 1..Len(writes) :
         /\ writes[i].level = selectedLevel
         /\ writes[i].positions[selectedLevel] = JNum(currentIndex)
\* during the autoplay, with the back of the first card up, the slider is
\* asked for a position beyond the last card
C30_BeyondLastWhilePlaying ==
  /\ lastEvent = "slider" /\ lastArg = DeckCap + 1
  /\ prior.isAutoPlaying /\ ~prior.isFrontSide /\ prior.currentIndex = 0
  /\ currentIndex = Len(vocabData[selectedLevel]) - 1 /\ currentIndex > 0
  /\ isFrontSide /\ ~isAutoPlaying /\ Len(writes) = 1

\* C31: a tap on the card while the autoplay is playing stops it, with both
\* timers cleared, turns the card over and leaves index and level as they
\* were; a timer fires only while the autoplay is playing, so none fires
\* after the tap.
C31_TapStopsAutoplay ==
  /\ (lastEvent = "tap" /\ prior.isAutoPlaying) =>
       /\ ~isAutoPlaying /\ pendingTimers = {} /\ autoplayTimers = <<>>
       /\ isFrontSide = ~prior.isFrontSide
       /\ currentIndex = prior.currentIndex
       /\ selectedLevel = prior.selectedLevel
  /\ lastEvent \in {"flipTimer", "nextTimer"} => prior.isAutoPlaying
  /\ ~isAutoPlaying => pendingTimers = {}
\* a tap between the flip and the advance of a cycle on the second card
C31_TapOnTheBack ==
  /\ lastEvent = "tap" /\ prior.isAutoPlaying /\ ~prior.isFrontSide
  /\ prior.currentIndex = 1 /\ currentIndex = 1
  /\ isFrontSide /\ ~isAutoPlaying /\ pendingTimers = {}

\* C32: the autoplay toggle, stopped on a deck that is not empty, starts the
\* autoplay with the front up; playing, it stops the autoplay and keeps the
\* face; either way level, index and decks are as before and nothing is
\* written to the stored record.
C32_ToggleFrame ==
  (lastEvent = "toggle" /\ phase = "mounted") =>
    /\ selectedLevel = prior.selectedLevel
    /\ currentIndex = prior.currentIndex
    /\ vocabData = deckBefore
    /\ writes = <<>>
    /\ (~prior.isAutoPlaying /\ total > 0) => (isAutoPlaying /\ isFrontSide)
    /\ prior.isAutoPlaying => (~isAutoPlaying /\ isFrontSide = prior.isFrontSide)
\* the autoplay started on the second card while its back is up
C32_StartedOnTheBack ==
  /\ lastEvent = "toggle" /\ ~prior.isAutoPlaying /\ ~prior.isFrontSide
  /\ prior.currentIndex = 1 /\ currentIndex = 1
  /\ isAutoPlaying /\ isFrontSide /\ writes = <<>>

\* C33: while the component is mounted, every event but the shuffle leaves
\* every deck as it was, card for card, and every deck always holds the cards
\* it was built with, as many as it was built with.
C33_DecksChangeByShuffleOnly ==
  phase = "mounted" =>
    /\ lastEvent # "shuffle" => vocabData = deckBefore
    /\ \A l \in Levels :
         /\ Len(vocabData[l]) = Len(initialVocabData[l])
         /\ Range(vocabData[l]) = Range(initialVocabData[l])
\* the autoplay advances over a deck that a shuffle has put in another order
C33_AdvanceOverShuffledDeck ==
  /\ phase = "mounted" /\ lastEvent = "nextTimer"
  /\ vocabData # initialVocabData /\ vocabData = deckBefore

\* ---------------------------------------------------------------- C34
\* what the rendered page lets the user do: with no active card the
\* component returns the empty-state block alone; otherwise the page holds
\* the level selector, the slider and the shuffle button (disabled on a deck
\* of one card), the card with its touch handlers, the two arrows (disabled
\* at the ends) and the play button (disabled without cards)
controls(w) ==
  IF activeCard(w).ref = 0 THEN {}
  ELSE {"level", "tap", "touch"}
       \cup (IF totalCards(w) <= 1 THEN {} ELSE {"slider", "shuffle"})
       \cup (IF w.currentIndex = 0 THEN {} ELSE {"previous"})
       \cup (IF w.currentIndex = totalCards(w) - 1 THEN {} ELSE {"next"})
       \cup (IF totalCards(w) = 0 THEN {} ELSE {"toggle"})

\* the values the range input can send: min 0, max totalCards - 1, step 1
sliderValues(w) == 0..Max(totalCards(w) - 1, 0)

clickNext == "next" \in controls(World) /\ handleNext
clickPrevious == "previous" \in controls(World) /\ handlePrevious
clickLevel(level) == "level" \in controls(World) /\ handleLevelChange(level)
clickShuffle == "shuffle" \in controls(World) /\ handleShuffleLevel
dragSlider(nextIndex) == "slider" \in controls(World) /\ handleSliderInput(nextIndex)
clickCard == "tap" \in controls(World) /\ handleCardTap
clickPlay == "toggle" \in controls(World) /\ handleToggleAutoplay
touchBegins(x) == "touch" \in controls(World) /\ onTouchStart(x)
touchMoves(x) == "touch" \in controls(World) /\ onTouchMove(x)
touchEnds == "touch" \in controls(World) /\ onTouchEnd

\* the component driven through the page it renders
PageNext ==
  \/ Mount
  \/ clickNext
  \/ clickPrevious
  \/ \E level \in Levels : clickLevel(level)
  \/ clickShuffle
  \/ \E nextIndex \in sliderValues(World) : dragSlider(nextIndex)
  \/ clickCard
  \/ clickPlay
  \/ \E x \in TouchStartXs : touchBegins(x)
  \/ \E x \in TouchMoveXs : touchMoves(x)
  \/ touchEnds
  \/ \E t \in pendingTimers : timerFires(t)
  \/ Unmount
  \/ Reload

PageSpec == Init /\ [][PageNext]_vars

\* C34: an empty level can be left: while the selected deck is empty the
\* page still offers the level selector, and a level with cards, once
\* selected, is the level shown, at index 0, with an active card.
C34_EmptyLevelIsRecoverable ==
  /\ (phase = "mounted" /\ total = 0) => "level" \in controls(World)
  /\ (lastEvent = "level" /\ Len(vocabData[levels[lastArg]]) > 0) =>
       /\ selectedLevel = levels[lastArg] /\ currentIndex = 0 /\ card.ref # 0

====
